---- MODULE Spec2Model ----
(***************************************************************************)
(* kraken-buy-bot: the weekly scheduler (place_monday_order,               *)
(* place_sunday_order), the order executor place_limit_order_btc with its  *)
(* retry loop, the persisted weekly flag (load_state / save_state) and the *)
(* Telegram command gateway of NotificationManager (staging, /confirm,     *)
(* cooldown, authorisation, /enable and /disable).                         *)
(*                                                                         *)
(* Money is kept in hundredths of the funding currency, so that            *)
(* balance * balance_percentage (config.py:11, a percentage / 100) is the  *)
(* integer balance * BalancePercentage.  A quantity is the exact ratio     *)
(* spend / (100 * price); comparisons against the minimum quantity are     *)
(* done by cross-multiplication.                                           *)
(***************************************************************************)
EXTENDS Integers, Sequences, FiniteSets, TLC

VARIABLES
    \* ---- process configuration (shared.py:6)
    DRY_RUN,
    \* ---- weekly cycle state (bot.py:32, 92-94)
    stateFile,                  \* contents of bot_state.json
    monday_attempt_successful,  \* module global of bot.py
    \* ---- calendar / scheduler
    nextDay,                    \* which weekly job comes due next
    jobs,                       \* schedule registry: job name -> number of registrations
    \* ---- the executor run on the main thread
    pc,                         \* position of the main thread
    trigger,                    \* job that started the current / last run
    retry_count,                \* local of place_limit_order_btc
    attempts,                   \* metrics_manager.record_order_attempt() calls of the job
    gatewayCalls,               \* exchange requests issued by the job
    orders,                     \* orders placed by the job, with their exchange status
    outcome,                    \* how the last run ended
    lastLog,                    \* last log_action line
    jobLog,                     \* lines logged by the job function itself
    primaryFilled,              \* history: a Monday run of this process ended filled
    fallbackFlag,               \* history: value of the flag read by the last Sunday job
    firstCompared,              \* history: the first attempt reached the dry-run comparison
    compared,                   \* history: attempts of the run that reached that comparison
    bidImproved,                \* history: a comparison found the best bid above our bid
    errorCount,                 \* history: attempts of the run that ended in the except path
    writeResult,                \* history: how the last save_state call of the process went
    alerted,                    \* history: the run logged a line at WARNING or ERROR level
    jobEnabledAtStart,          \* history: self._scheduling_enabled when the last job started
    \* ---- command gateway (NotificationManager)
    now,                        \* time.time()
    ticks,                      \* number of clock steps taken
    last_command_time,          \* self._last_command_time
    pending_buy_confirmation,   \* self._pending_buy_confirmation
    initialized,                \* self.initialized
    callbacks_set,              \* initialize_bot() has registered the callbacks
    scheduling_enabled,         \* self._scheduling_enabled
    listener,                   \* position of the listener thread inside a handler
    inflight,                   \* confirm handlers the dispatcher has started: slot -> locals
    shutdown,                   \* "stopped" once signal_handler has run stop()
    last,                       \* history: the last handled command and its reply
    accept_count,               \* history: confirms that passed both checks since staging
    dispatch_count              \* history: executor coroutines scheduled since staging

execVars == <<DRY_RUN, stateFile, monday_attempt_successful, nextDay, pc, trigger,
              retry_count, attempts, gatewayCalls, orders, outcome, lastLog, jobLog,
              primaryFilled, fallbackFlag, firstCompared, compared, bidImproved,
              errorCount, writeResult, alerted, jobEnabledAtStart>>

gatewayVars == <<now, ticks, last_command_time, pending_buy_confirmation, initialized,
                 callbacks_set, scheduling_enabled, listener, inflight, shutdown, jobs,
                 last, accept_count, dispatch_count>>

vars == <<execVars, gatewayVars>>

----------------------------------------------------------------------------
(* Bounds of the model *)

\* TRADING_CONFIG['max_retries'] (config.py:13, from the environment)
max_retries == 2

\* how many times the clock moves
MaxTicks == 2

(* Program constants *)

\* TRADING_CONFIG['balance_percentage'] numerator: BALANCE_PERCENTAGE default
BalancePercentage == 20
\* TRADING_CONFIG['min_btc_amount'] = 0.00005 = MinBtcNum / MinBtcDen
MinBtcNum == 5
MinBtcDen == 100000
\* hundredths per currency unit (the "/ 100" of config.py:11)
Hundred == 100
\* get_available_balance: minimum funding balance
MinFunding == 10
\* handle_confirm_command: (time.time() - ts) > 30
ConfirmWindow == 30
\* self._command_cooldown
command_cooldown == 2
\* positional arguments handle_confirm_command passes to the callback
DispatchArgs == 3
\* positional parameters of place_limit_order_btc / _sol / _eth / _usdc
CallbackParams == 0

(* Inputs *)

Balances == {5, 10, 100}
UsdcBalances == {0, 50}
Prices == {50000}
Books == {<<>>} \cup {<<p>> : p \in Prices}
AttemptFaults == {"none", "fetch_balance", "get_available_balance",
                  "fetch_order_book", "create_limit_buy_order"}
WriteResults == {"ok", "open_fails", "dump_fails"}
\* seconds between two events: one second, or one confirmation window
Delays == {1, ConfirmWindow}

Log(msg, level) == [msg |-> msg, level |-> level]

----------------------------------------------------------------------------
(* PersistentFlagStore *)

\* save_state: open(STATE_FILE, 'w') truncates, json.dump writes; an exception
\* is logged and swallowed
save_state(file, value, wr) ==
    CASE wr = "ok"         -> (IF value THEN "true" ELSE "false")
      [] wr = "open_fails" -> file
      [] wr = "dump_fails" -> "garbled"

\* contents bot_state.json can have when the process starts: no file, the two
\* records save_state writes, an empty or partial file (not JSON), a JSON object
\* without the key ("{}"), JSON that is not an object ("[]", "null")
StartFiles == {"absent", "false", "true", "garbled", "nokey", "notobject"}

C11_LoadsDefault(file) == FALSE
\* state['monday_attempt_successful'] (bot.py:94) is outside every try: whatever
\* json.load returned is subscripted, which raises KeyError on an object without
\* the key and TypeError on a list or null
SubscriptRaises(file) == file \in {"nokey", "notobject"}

\* the import of bot.py got past line 94
Loaded(file) == ~SubscriptRaises(file)

\* load_state followed by state['monday_attempt_successful'] (bot.py:93-94):
\* json.load raising is caught inside load_state and gives the default; where
\* the subscript raises, the global is never bound and the process is gone
load_state(file) ==
    CASE file = "true"      -> TRUE
      [] file = "false"     -> FALSE
      [] file = "absent"    -> FALSE
      [] file = "garbled"   -> FALSE
      [] file = "nokey"     -> FALSE
      [] file = "notobject" -> FALSE

\* the file after load_state: a missing file is initialised through save_state
file_after_load(file, wr) ==
    IF file = "absent" THEN save_state(file, FALSE, wr) ELSE file

----------------------------------------------------------------------------
(* Pure helpers of the executor *)

C33_StrictThreshold(eur, usdc, allow_usdc) ==
    IF eur > MinFunding THEN [currency |-> "EUR", balance |-> eur]
    ELSE IF allow_usdc /\ usdc > MinFunding THEN [currency |-> "USDC", balance |-> usdc]
    ELSE [currency |-> "None", balance |-> 0]
\* get_available_balance
get_available_balance(eur, usdc, allow_usdc) ==
    IF eur >= MinFunding THEN [currency |-> "EUR", balance |-> eur]
    ELSE IF allow_usdc /\ usdc >= MinFunding THEN [currency |-> "USDC", balance |-> usdc]
    ELSE [currency |-> "None", balance |-> 0]

\* amount_to_use = available_balance * balance_percentage, in hundredths
amount_to_use(available_balance) == available_balance * BalancePercentage

C6_SkipMinimumCheck(spend, bid_price) == FALSE
\* btc_amount < TRADING_CONFIG['min_btc_amount'], btc_amount = amount_to_use / bid_price
QuantityBelowMinimum(spend, bid_price) ==
    spend * MinBtcDen < MinBtcNum * Hundred * bid_price

C8_NeverFill(current_price, bid_price) == FALSE
C9_StrictComparison(current_price, bid_price) == current_price < bid_price
\* dry run: current_price <= bid_price
SimulatedFill(current_price, bid_price) == current_price <= bid_price

\* "monday_attempt_successful = True" inside place_limit_order_btc: the function
\* has no global declaration, so the assignment binds a local name and the
\* module global keeps its value
FlagAfterLiveFill(flag) == flag

\* initialize_bot: the coroutine function registered for each staging command
RegisteredCallback(command_type) ==
    CASE command_type = "buy"     -> "place_limit_order_btc"
      [] command_type = "buysol"  -> "place_limit_order_sol"
      [] command_type = "buyeth"  -> "place_limit_order_eth"
      [] command_type = "buyusdc" -> "place_limit_order_usdc"

\* the store after the branch "order_status['status'] == 'closed'" of an
\* executor: place_limit_order_btc saves {'monday_attempt_successful': True}
\* whoever called it; the executors of the other assets save nothing
StoreAfterFill(file, executor, wr) ==
    IF executor = "place_limit_order_btc" THEN save_state(file, TRUE, wr) ELSE file

C26_ConsumesRetry(rc) == rc + 1
\* "return" after the insufficient-balance or the empty-book message: the
\* function is left with retry_count as it was
RetryCountAfterAbort(rc) == rc

C28_CountsTwice(rc) == rc + 2
C7_NoIncrement(rc) == rc
\* retry_count += 1
NextRetryCount(rc) == rc + 1

C12_KeepFlag(flag) == flag
\* place_monday_order: monday_attempt_successful = False
FlagAtCycleStart(flag) == FALSE

C10_AlwaysRun(flag) == TRUE
\* place_sunday_order: if not monday_attempt_successful
SundayRuns(flag) == ~flag

\* while retry_count < TRADING_CONFIG['max_retries']
WhileCondition(rc) == rc < max_retries

\* if retry_count < TRADING_CONFIG['max_retries'] (after the increment)
RetriesRemain(rc) == rc < max_retries

\* place_limit_order_btc has been entered by a job and has not returned: it is
\* in an attempt, or suspended in the order-timeout wait or the retry delay
Running == pc \in {"attempt", "placed", "cancel", "delay"}

----------------------------------------------------------------------------
(* The command gateway: pure helpers *)

\* chat ids that write to the bot; NOTIFICATION_CONFIG['telegram_chat_id'] is "owner"
ChatIds == {"owner", "stranger"}
telegram_chat_id == "owner"

C5_EveryoneAllowed(chat_id) == TRUE
\* chat_id != str(NOTIFICATION_CONFIG['telegram_chat_id']) is the rejection
Authorized(chat_id) == chat_id = telegram_chat_id

\* tokens are sequences of characters
Digits == {"0", "1", "2", "3", "4", "5", "6", "7", "8", "9"}
DigitValue(c) ==
    CASE c = "0" -> 0 [] c = "1" -> 1 [] c = "2" -> 2 [] c = "3" -> 3 [] c = "4" -> 4
      [] c = "5" -> 5 [] c = "6" -> 6 [] c = "7" -> 7 [] c = "8" -> 8 [] c = "9" -> 9

RECURSIVE DigitsToNat(_)
DigitsToNat(tok) ==
    IF tok = <<>> THEN 0
    ELSE DigitsToNat(SubSeq(tok, 1, Len(tok) - 1)) * 10 + DigitValue(tok[Len(tok)])

AllDigits(tok) == tok # <<>> /\ \A i \in 1..Len(tok) : tok[i] \in Digits

\* str.upper() on the letters the model sends
UpperChar(c) ==
    CASE c = "e" -> "E" [] c = "u" -> "U" [] c = "r" -> "R" [] c = "s" -> "S"
      [] c = "d" -> "D" [] c = "c" -> "C" [] c = "g" -> "G" [] c = "b" -> "B"
      [] c = "p" -> "P" [] c = "n" -> "N" [] c = "a" -> "A" [] OTHER -> c
Upper(tok) == [i \in 1..Len(tok) |-> UpperChar(tok[i])]

\* a Python float: a number, or nan
Float(v) == [nan |-> FALSE, value |-> v]
NaN == [nan |-> TRUE, value |-> 0]

\* x <= v on floats: every comparison with nan is false
LessEqual(x, v) == ~x.nan /\ x.value <= v

\* x > v on floats
Greater(x, v) == ~x.nan /\ x.value > v

\* float(amount_str) on the tokens the model sends: decimal integers with an
\* optional minus sign, and "nan" in any case; a ValueError for anything else
ParseFloat(tok) ==
    IF AllDigits(tok) THEN [ok |-> TRUE, value |-> Float(DigitsToNat(tok))]
    ELSE IF tok # <<>> /\ tok[1] = "-" /\ AllDigits(Tail(tok))
      THEN [ok |-> TRUE, value |-> Float(0 - DigitsToNat(Tail(tok)))]
    ELSE IF Upper(tok) = <<"N", "A", "N">> THEN [ok |-> TRUE, value |-> NaN]
    ELSE [ok |-> FALSE, value |-> Float(0)]

Invalid == [valid |-> FALSE, amount |-> Float(0), currency |-> "None",
            is_percentage |-> FALSE]

\* currency not in ['EUR', 'USDC'] is the rejection
CurrencyName(tok) ==
    IF tok = <<"E", "U", "R">> THEN "EUR"
    ELSE IF tok = <<"U", "S", "D", "C">> THEN "USDC"
    ELSE "other"

\* NotificationManager._parse_buy_command
parse_buy_command(args) ==
    IF args = <<>> THEN Invalid
    ELSE
      LET is_percentage == args[1] # <<>> /\ args[1][Len(args[1])] = "%"
          amount_str == IF is_percentage THEN SubSeq(args[1], 1, Len(args[1]) - 1)
                        ELSE args[1]
          amount     == ParseFloat(amount_str)
          currency   == IF Len(args) > 1 THEN CurrencyName(Upper(args[2])) ELSE "None"
      IN IF ~amount.ok THEN Invalid
         ELSE IF LessEqual(amount.value, 0) THEN Invalid
         ELSE IF currency = "other" THEN Invalid
         ELSE [valid |-> TRUE, amount |-> amount.value, currency |-> currency,
               is_percentage |-> is_percentage]

\* the dict self._pending_buy_confirmation
EmptyTable == [c \in {} |-> 0]
Has(table, chat_id) == chat_id \in DOMAIN table
Store(table, chat_id, entry) ==
    [c \in DOMAIN table \cup {chat_id} |-> IF c = chat_id THEN entry ELSE table[c]]

C4_KeepEntry(table, chat_id) == table
C38_PopsOtherKey(table, chat_id) == table
\* self._pending_buy_confirmation.pop(chat_id, None)
Pop(table, chat_id) == [c \in DOMAIN table \ {chat_id} |-> table[c]]

C3_ExpiresNever(t, ts) == FALSE
\* (time.time() - ts) > 30
Expired(t, ts) == (t - ts) > ConfirmWindow

\* _check_command_cooldown: time_since_last < self._command_cooldown is the rejection
CooldownPasses(t, last_t) == ~((t - last_t) < command_cooldown)

C30_CallBinds == TRUE
\* callback(amount, currency, is_percentage): Python binds three positional
\* arguments to the parameters of the registered coroutine function, all four of
\* which are declared without parameters, and raises TypeError when they differ
CallbackBinds == DispatchArgs = CallbackParams

BuyCommands == {"buy", "buysol", "buyeth", "buyusdc"}

\* the handler invocations the dispatcher can hold at once, and the locals of
\* handle_confirm_command between its read of the table and its pop: chat_id and
\* pending (notifications.py:631-633)
Slots == {1, 2}
Idle == [pc |-> "idle", chat |-> "none", pending |-> <<>>]

ArgLists == {
    <<>>,
    << <<"2", "5", "%">> >>,
    << <<"5", "0">>, <<"u", "s", "d", "c">> >>,
    << <<"a", "b", "c">> >>,
    << <<"1", "0", "0">>, <<"G", "B", "P">> >>,
    << <<"0">> >>,
    << <<"n", "a", "n">> >> }

\* the last handled command: well_formed records, for a staging command answered
\* "unauthorized", whether its arguments would have parsed; during_run records,
\* for an accepted confirm, whether a scheduled run was in progress
NoCommand == [cmd |-> "none", chat |-> "none", result |-> "none",
              had_entry |-> FALSE, entry_ts |-> 0, registered |-> FALSE,
              dispatched |-> FALSE, well_formed |-> FALSE, during_run |-> FALSE]

Handled(cmd, chat_id, result) ==
    [cmd |-> cmd, chat |-> chat_id, result |-> result,
     had_entry |-> Has(pending_buy_confirmation, chat_id),
     entry_ts |-> IF Has(pending_buy_confirmation, chat_id)
                    THEN pending_buy_confirmation[chat_id].ts ELSE 0,
     registered |-> callbacks_set,
     dispatched |-> FALSE,
     well_formed |-> FALSE,
     during_run |-> FALSE]

----------------------------------------------------------------------------
(* The executor: place_limit_order_btc *)

runVars == <<trigger, retry_count, attempts, gatewayCalls, orders, outcome,
             firstCompared, compared, bidImproved, errorCount, alerted>>

\* entry of place_limit_order_btc from a job: retry_count = 0, then the while test;
\* with nothing to retry the loop body never runs and line 243 reports the failure
StartRun(job, line) ==
    /\ trigger' = job
    /\ retry_count' = 0
    /\ attempts' = 0
    /\ gatewayCalls' = 0
    /\ orders' = <<>>
    /\ firstCompared' = FALSE
    /\ compared' = 0
    /\ bidImproved' = FALSE
    /\ errorCount' = 0
    /\ IF WhileCondition(0)
         THEN /\ pc' = "attempt"
              /\ outcome' = "none"
              /\ lastLog' = line
              /\ alerted' = FALSE
         ELSE /\ pc' = "idle"
              /\ outcome' = "exhausted"
              /\ lastLog' = Log("failed_after_max_retries", "ERROR")
              /\ alerted' = TRUE

\* the failure is logged at WARNING (cancel, bot.py:215/217) or ERROR (except
\* clause, bot.py:231) level; record_order_failure(); retry_count += 1; retry
\* after the delay or give up (bot.py:219-228 and 232-241)
FailAndRetry ==
    /\ retry_count' = NextRetryCount(retry_count)
    /\ alerted' = TRUE
    /\ IF RetriesRemain(NextRetryCount(retry_count))
         THEN /\ pc' = "delay"
              /\ outcome' = outcome
              /\ lastLog' = Log("retrying", "INFO")
         ELSE /\ pc' = "idle"
              /\ outcome' = "exhausted"
              /\ lastLog' = Log("max_retries_reached", "WARNING")

\* the dry-run failure branch (bot.py:185-194): no return, "continue" re-tests the
\* while condition, and line 243 reports once the loop is left
SimulatedFailAndRetry ==
    /\ retry_count' = NextRetryCount(retry_count)
    /\ alerted' = TRUE
    /\ IF RetriesRemain(NextRetryCount(retry_count))
         THEN /\ pc' = "delay"
              /\ outcome' = outcome
              /\ lastLog' = Log("retrying", "INFO")
         ELSE IF WhileCondition(NextRetryCount(retry_count))
         THEN /\ pc' = "attempt"
              /\ outcome' = outcome
              /\ lastLog' = Log("simulated_not_filled", "WARNING")
         ELSE /\ pc' = "idle"
              /\ outcome' = "exhausted"
              /\ lastLog' = Log("failed_after_max_retries", "ERROR")

\* one pass of the loop body up to the dry-run verdict or the placed order
\* (bot.py:131-198, and the except clause 230-241 for a raising gateway call)
Attempt ==
    /\ pc = "attempt"
    /\ \E fault \in AttemptFaults, eur \in Balances, usdc \in UsdcBalances, bids \in Books :
         LET funding == get_available_balance(eur, usdc, TRUE)
             spend   == amount_to_use(funding.balance)
             bid_price == bids[1]
             current_price == bids[1]
         IN
         /\ attempts' = attempts + 1
         /\ IF fault = "fetch_balance" THEN
                /\ gatewayCalls' = gatewayCalls + 1
                /\ errorCount' = errorCount + 1
                /\ FailAndRetry
                /\ UNCHANGED <<orders, firstCompared, compared, bidImproved>>
            ELSE IF fault = "get_available_balance" THEN
                /\ gatewayCalls' = gatewayCalls + 2
                /\ errorCount' = errorCount + 1
                /\ FailAndRetry
                /\ UNCHANGED <<orders, firstCompared, compared, bidImproved>>
            ELSE IF funding.currency = "None" THEN
                /\ gatewayCalls' = gatewayCalls + 2
                /\ pc' = "idle"
                /\ outcome' = "insufficient_balance"
                /\ lastLog' = Log("insufficient_balance", "INFO")
                /\ retry_count' = RetryCountAfterAbort(retry_count)
                /\ UNCHANGED <<orders, firstCompared, compared, bidImproved,
                               errorCount, alerted>>
            ELSE IF fault = "fetch_order_book" THEN
                /\ gatewayCalls' = gatewayCalls + 3
                /\ errorCount' = errorCount + 1
                /\ FailAndRetry
                /\ UNCHANGED <<orders, firstCompared, compared, bidImproved>>
            ELSE IF bids = <<>> THEN
                /\ gatewayCalls' = gatewayCalls + 3
                /\ pc' = "idle"
                /\ outcome' = "no_bids"
                /\ lastLog' = Log("no_bids", "INFO")
                /\ retry_count' = RetryCountAfterAbort(retry_count)
                /\ UNCHANGED <<orders, firstCompared, compared, bidImproved,
                               errorCount, alerted>>
            ELSE IF QuantityBelowMinimum(spend, bid_price) THEN
                /\ gatewayCalls' = gatewayCalls + 3
                /\ pc' = "idle"
                /\ outcome' = "below_minimum"
                /\ lastLog' = Log("below_minimum", "INFO")
                /\ UNCHANGED <<retry_count, orders, firstCompared, compared,
                               bidImproved, errorCount, alerted>>
            ELSE IF DRY_RUN THEN
                /\ gatewayCalls' = gatewayCalls + 3
                /\ firstCompared' = (firstCompared \/ attempts = 0)
                /\ compared' = compared + 1
                /\ bidImproved' = (bidImproved \/ current_price > bid_price)
                /\ IF SimulatedFill(current_price, bid_price)
                     THEN /\ pc' = "idle"
                          /\ outcome' = "filled"
                          /\ lastLog' = Log("simulated_fill", "SUCCESS")
                          /\ retry_count' = retry_count
                          /\ alerted' = alerted
                     ELSE SimulatedFailAndRetry
                /\ UNCHANGED <<orders, errorCount>>
            ELSE IF fault = "create_limit_buy_order" THEN
                /\ gatewayCalls' = gatewayCalls + 4
                /\ errorCount' = errorCount + 1
                /\ FailAndRetry
                /\ UNCHANGED <<orders, firstCompared, compared, bidImproved>>
            ELSE
                /\ gatewayCalls' = gatewayCalls + 4
                /\ orders' = Append(orders, [spend |-> spend, price |-> bid_price,
                                             currency |-> funding.currency,
                                             status |-> "open",
                                             cancel_requested |-> FALSE])
                /\ pc' = "placed"
                /\ outcome' = outcome
                /\ lastLog' = Log("order_placed", "INFO")
                /\ UNCHANGED <<retry_count, firstCompared, compared, bidImproved,
                               errorCount, alerted>>
    /\ primaryFilled' =
           IF outcome' = "filled" /\ trigger = "monday" THEN "simulated" ELSE primaryFilled
    /\ UNCHANGED <<DRY_RUN, stateFile, monday_attempt_successful, nextDay, trigger,
                   jobLog, fallbackFlag, writeResult, jobEnabledAtStart>>
    /\ UNCHANGED gatewayVars

\* asyncio.sleep(retry_delay_seconds) is over: "continue" re-tests the while condition
RetryDelay ==
    /\ pc = "delay"
    /\ IF WhileCondition(retry_count)
         THEN /\ pc' = "attempt"
              /\ UNCHANGED <<outcome, lastLog, alerted>>
         ELSE /\ pc' = "idle"
              /\ outcome' = "exhausted"
              /\ lastLog' = Log("failed_after_max_retries", "ERROR")
              /\ alerted' = TRUE
    /\ UNCHANGED <<DRY_RUN, stateFile, monday_attempt_successful, nextDay, trigger,
                   retry_count, attempts, gatewayCalls, orders, jobLog, primaryFilled,
                   fallbackFlag, firstCompared, compared, bidImproved, errorCount,
                   writeResult, jobEnabledAtStart>>
    /\ UNCHANGED gatewayVars

\* the exchange fills a resting order of the run
ExchangeFills ==
    /\ \E i \in 1..Len(orders) :
         /\ orders[i].status = "open"
         /\ orders' = [orders EXCEPT ![i].status = "closed"]
    /\ UNCHANGED <<DRY_RUN, stateFile, monday_attempt_successful, nextDay, pc, trigger,
                   retry_count, attempts, gatewayCalls, outcome, lastLog, jobLog,
                   primaryFilled, fallbackFlag, firstCompared, compared, bidImproved,
                   errorCount, writeResult, alerted, jobEnabledAtStart>>
    /\ UNCHANGED gatewayVars

\* after asyncio.sleep(order_timeout_minutes * 60): kraken.fetch_order and the
\* 'closed' branch (bot.py:203-210), or the except clause when the query raises
FetchOrder ==
    /\ pc = "placed"
    /\ gatewayCalls' = gatewayCalls + 1
    /\ \E raises \in BOOLEAN, wr \in WriteResults :
         IF raises THEN
            /\ errorCount' = errorCount + 1
            /\ FailAndRetry
            /\ UNCHANGED <<stateFile, monday_attempt_successful, primaryFilled,
                           writeResult>>
         ELSE IF orders[Len(orders)].status = "closed" THEN
            /\ lastLog' = Log("order_filled", "SUCCESS")
            /\ monday_attempt_successful' = FlagAfterLiveFill(monday_attempt_successful)
            /\ stateFile' = StoreAfterFill(stateFile, "place_limit_order_btc", wr)
            /\ writeResult' = wr
            /\ pc' = "idle"
            /\ outcome' = "filled"
            /\ primaryFilled' = IF trigger = "monday" THEN "live" ELSE primaryFilled
            /\ UNCHANGED <<retry_count, errorCount, alerted>>
         ELSE
            /\ pc' = "cancel"
            /\ UNCHANGED <<stateFile, monday_attempt_successful, primaryFilled,
                           retry_count, errorCount, outcome, lastLog, writeResult,
                           alerted>>
    /\ UNCHANGED <<DRY_RUN, nextDay, trigger, attempts, orders, jobLog, fallbackFlag,
                   firstCompared, compared, bidImproved, jobEnabledAtStart>>
    /\ UNCHANGED gatewayVars

\* the order was observed open: kraken.cancel_order, tolerating its failure, then
\* the retry bookkeeping (bot.py:211-228).  The exchange refuses to cancel an
\* order that filled in the meantime.
CancelOrder ==
    /\ pc = "cancel"
    /\ gatewayCalls' = gatewayCalls + 1
    /\ \E cancelled \in BOOLEAN :
         orders' = IF cancelled /\ orders[Len(orders)].status = "open"
                     THEN [orders EXCEPT ![Len(orders)].status = "canceled",
                                         ![Len(orders)].cancel_requested = TRUE]
                     ELSE [orders EXCEPT ![Len(orders)].cancel_requested = TRUE]
    /\ FailAndRetry
    /\ UNCHANGED <<DRY_RUN, stateFile, monday_attempt_successful, nextDay, trigger,
                   attempts, jobLog, primaryFilled, fallbackFlag, firstCompared,
                   compared, bidImproved, errorCount, writeResult, jobEnabledAtStart>>
    /\ UNCHANGED gatewayVars

----------------------------------------------------------------------------
(* The weekly jobs, run by schedule.run_pending() from the main loop *)

\* main loop: if notification_manager.is_scheduling_enabled(): schedule.run_pending()
\* with the weekly job of that day registered and due
JobDue(day) ==
    /\ pc = "idle"
    /\ nextDay = day
    /\ scheduling_enabled
    /\ jobs[day] > 0

\* body of place_monday_order
place_monday_order ==
    /\ nextDay' = "sunday"
    /\ jobEnabledAtStart' = scheduling_enabled
    /\ monday_attempt_successful' = FlagAtCycleStart(monday_attempt_successful)
    /\ \E wr \in WriteResults :
         /\ stateFile' = save_state(stateFile, FALSE, wr)
         /\ writeResult' = wr
    /\ jobLog' = <<"starting_monday_attempt">>
    /\ primaryFilled' = "no"
    /\ StartRun("monday", Log("starting_monday_attempt", "INFO"))
    /\ UNCHANGED <<DRY_RUN, fallbackFlag>>
    /\ UNCHANGED gatewayVars

\* body of place_sunday_order
place_sunday_order ==
    /\ nextDay' = "monday"
    /\ jobEnabledAtStart' = scheduling_enabled
    /\ fallbackFlag' = monday_attempt_successful
    /\ IF SundayRuns(monday_attempt_successful)
         THEN /\ jobLog' = <<"running_sunday_fallback">>
              /\ StartRun("sunday", Log("running_sunday_fallback", "INFO"))
         ELSE /\ jobLog' = <<"skipping_sunday_fallback">>
              /\ lastLog' = Log("skipping_sunday_fallback", "INFO")
              /\ trigger' = "sunday"
              /\ outcome' = "skipped"
              /\ retry_count' = 0
              /\ attempts' = 0
              /\ gatewayCalls' = 0
              /\ orders' = <<>>
              /\ firstCompared' = FALSE
              /\ compared' = 0
              /\ bidImproved' = FALSE
              /\ errorCount' = 0
              /\ alerted' = FALSE
              /\ pc' = "idle"
    /\ UNCHANGED <<DRY_RUN, stateFile, monday_attempt_successful, primaryFilled,
                   writeResult>>
    /\ UNCHANGED gatewayVars

\* one pass of the main loop finds the Monday job due and runs it
PlaceMondayOrder == JobDue("monday") /\ place_monday_order

\* one pass of the main loop finds the Sunday job due and runs it
PlaceSundayOrder == JobDue("sunday") /\ place_sunday_order

----------------------------------------------------------------------------
(* Process start *)

JobNames == {"monday", "sunday"}

\* NotificationManager.__init__ and the module-level schedule registration
\* (bot.py:609-634); the clock starts late enough for the first command to
\* pass the cooldown, as time.time() does against _last_command_time = 0
GatewayStart ==
    /\ now = command_cooldown
    /\ ticks = 0
    /\ last_command_time = 0
    /\ pending_buy_confirmation = EmptyTable
    /\ initialized = FALSE
    /\ callbacks_set = FALSE
    /\ scheduling_enabled = TRUE
    /\ listener = "idle"
    /\ inflight = [s \in Slots |-> Idle]
    /\ shutdown = "none"
    /\ jobs = [d \in JobNames |-> 1]
    /\ last = NoCommand
    /\ accept_count = 0
    /\ dispatch_count = 0

\* module import of bot.py: load_state, the global flag, the idle main loop; an
\* exception at line 94 ends the process before anything else is set up
ExecStart(file, wr) ==
    /\ stateFile = file_after_load(file, wr)
    /\ writeResult = (IF file = "absent" THEN wr ELSE "none")
    /\ monday_attempt_successful = load_state(file)
    /\ pc = (IF Loaded(file) THEN "idle" ELSE "crashed")
    /\ trigger = "none"
    /\ retry_count = 0
    /\ attempts = 0
    /\ gatewayCalls = 0
    /\ orders = <<>>
    /\ outcome = "none"
    /\ lastLog = (IF Loaded(file) THEN Log("bot_started", "SUCCESS")
                                  ELSE Log("traceback", "ERROR"))
    /\ jobLog = <<>>
    /\ primaryFilled = "no"
    /\ fallbackFlag = FALSE
    /\ firstCompared = FALSE
    /\ compared = 0
    /\ bidImproved = FALSE
    /\ errorCount = 0
    /\ alerted = FALSE
    /\ jobEnabledAtStart = TRUE

Init ==
    /\ DRY_RUN \in BOOLEAN
    /\ nextDay \in JobNames
    /\ \E file \in StartFiles, wr \in WriteResults : ExecStart(file, wr)
    /\ GatewayStart

\* the process is stopped and started again: the file and the calendar stay,
\* everything in memory is rebuilt as at the first start
Restart ==
    /\ \E wr \in WriteResults :
         /\ stateFile' = file_after_load(stateFile, wr)
         /\ writeResult' = (IF stateFile = "absent" THEN wr ELSE "none")
    /\ monday_attempt_successful' = load_state(stateFile)
    /\ pc' = (IF Loaded(stateFile) THEN "idle" ELSE "crashed")
    /\ trigger' = "none"
    /\ retry_count' = 0
    /\ attempts' = 0
    /\ gatewayCalls' = 0
    /\ orders' = <<>>
    /\ outcome' = "none"
    /\ lastLog' = (IF Loaded(stateFile) THEN Log("bot_started", "SUCCESS")
                                        ELSE Log("traceback", "ERROR"))
    /\ jobLog' = <<>>
    /\ primaryFilled' = "no"
    /\ fallbackFlag' = FALSE
    /\ firstCompared' = FALSE
    /\ compared' = 0
    /\ bidImproved' = FALSE
    /\ errorCount' = 0
    /\ alerted' = FALSE
    /\ jobEnabledAtStart' = TRUE
    /\ UNCHANGED <<DRY_RUN, nextDay>>
    /\ UNCHANGED gatewayVars

----------------------------------------------------------------------------
(* The command gateway: handlers of NotificationManager, run by the listener *)

gatewayFrame == <<execVars, jobs, listener, inflight, shutdown>>

\* the checks that open every staging, toggle and status handler, in order:
\* cooldown, initialisation, authorisation
Gate(chat_id) ==
    IF ~CooldownPasses(now, last_command_time) THEN "cooldown"
    ELSE IF ~initialized THEN "not_initialized"
    ELSE IF ~Authorized(chat_id) THEN "unauthorized"
    ELSE "pass"

C37_AlwaysStamp == last_command_time' = now
\* _check_command_cooldown stamps the time of a command that passes it
StampCooldown ==
    last_command_time' =
        IF CooldownPasses(now, last_command_time) THEN now ELSE last_command_time

C21_StoresUnparsed(gate, parsed, command_type) ==
    IF gate # "pass" THEN gate
    ELSE IF command_type = "buyusdc" /\ parsed.currency \notin {"None", "EUR"}
      THEN "usdc_eur_only"
    ELSE "confirm_prompt"
C20_ParseFirst(gate, parsed, command_type) ==
    IF ~parsed.valid THEN "usage"
    ELSE IF gate # "pass" THEN gate
    ELSE IF command_type = "buyusdc" /\ parsed.currency \notin {"None", "EUR"}
      THEN "usdc_eur_only"
    ELSE "confirm_prompt"
\* the reply of a staging handler: the three checks come before the arguments
\* are parsed; only buyusdc has the EUR-only check
StageReply(gate, parsed, command_type) ==
    IF gate # "pass" THEN gate
    ELSE IF ~parsed.valid THEN "usage"
    ELSE IF command_type = "buyusdc" /\ parsed.currency \notin {"None", "EUR"}
      THEN "usdc_eur_only"
    ELSE "confirm_prompt"

\* what a staging handler does to the manager, as a function of the state it
\* runs in: its reply, the pending table and the cooldown stamp it leaves
StageOutcome(command_type, chat_id, args) ==
    LET parsed == parse_buy_command(args)
        result == StageReply(Gate(chat_id), parsed, command_type)
        entry  == [ts |-> now, command_type |-> command_type, amount |-> parsed.amount,
                   currency |-> IF command_type = "buyusdc" THEN "EUR" ELSE parsed.currency,
                   is_percentage |-> parsed.is_percentage]
    IN [result |-> result,
        table  |-> IF result = "confirm_prompt"
                     THEN Store(pending_buy_confirmation, chat_id, entry)
                     ELSE pending_buy_confirmation,
        stamp  |-> IF CooldownPasses(now, last_command_time) THEN now
                   ELSE last_command_time]

\* handle_buy_command, handle_buy_sol_command, handle_buy_eth_command and
\* handle_buy_usdc_command share this body; buyusdc stores 'EUR' as the currency
Stage(command_type, chat_id, args) ==
    LET out == StageOutcome(command_type, chat_id, args)
    IN /\ last_command_time' = out.stamp
       /\ last' = [Handled(command_type, chat_id, out.result)
                     EXCEPT !.well_formed = (out.result = "unauthorized"
                                               /\ parse_buy_command(args).valid)]
       /\ pending_buy_confirmation' = out.table
       /\ IF out.result = "confirm_prompt"
            THEN /\ accept_count' = 0
                 /\ dispatch_count' = 0
            ELSE UNCHANGED <<accept_count, dispatch_count>>
       /\ UNCHANGED <<now, ticks, initialized, callbacks_set, scheduling_enabled>>
       /\ UNCHANGED gatewayFrame

HandleBuyCommand ==
    \E chat_id \in ChatIds, args \in ArgLists : Stage("buy", chat_id, args)

HandleBuySolCommand ==
    \E chat_id \in ChatIds, args \in ArgLists : Stage("buysol", chat_id, args)

HandleBuyEthCommand ==
    \E chat_id \in ChatIds, args \in ArgLists : Stage("buyeth", chat_id, args)

HandleBuyUsdcCommand ==
    \E chat_id \in ChatIds, args \in ArgLists : Stage("buyusdc", chat_id, args)

\* handle_confirm_command
HandleConfirmCommand ==
    \E chat_id \in ChatIds :
       /\ IF ~Has(pending_buy_confirmation, chat_id) THEN
             /\ last' = Handled("confirm", chat_id, "no_pending")
             /\ UNCHANGED <<pending_buy_confirmation, accept_count, dispatch_count>>
          ELSE IF Expired(now, pending_buy_confirmation[chat_id].ts) THEN
             /\ last' = Handled("confirm", chat_id, "timed_out")
             /\ pending_buy_confirmation' = Pop(pending_buy_confirmation, chat_id)
             /\ UNCHANGED <<accept_count, dispatch_count>>
          ELSE
             /\ pending_buy_confirmation' = Pop(pending_buy_confirmation, chat_id)
             /\ accept_count' = accept_count + 1
             /\ IF ~callbacks_set THEN
                   /\ last' = [Handled("confirm", chat_id, "callback_missing")
                                 EXCEPT !.during_run = Running]
                   /\ UNCHANGED dispatch_count
                ELSE IF ~CallbackBinds THEN
                   /\ last' = [Handled("confirm", chat_id, "error_executing")
                                 EXCEPT !.during_run = Running]
                   /\ UNCHANGED dispatch_count
                ELSE
                   /\ last' = [Handled("confirm", chat_id, "initiated")
                                 EXCEPT !.dispatched = TRUE, !.during_run = Running]
                   /\ dispatch_count' = dispatch_count + 1
       /\ UNCHANGED <<now, ticks, last_command_time, initialized, callbacks_set,
                      scheduling_enabled>>
       /\ UNCHANGED gatewayFrame

C31_HandlersRunAsync(handlers) == TRUE
\* dispatcher.add_handler(CommandHandler(name, callback)) for every command, none
\* with run_async: the dispatcher thread of the Updater calls one handler and
\* takes the next update when that handler has returned
DispatcherFree(handlers) == \A s \in Slots : handlers[s].pc = "idle"

\* handle_confirm_command up to its read of the table (notifications.py:631-637):
\* chat_id and pending become locals of the invocation; with nothing pending the
\* handler replies and returns
ConfirmRead(s) ==
    /\ DispatcherFree(inflight)
    /\ inflight[s].pc = "idle"
    /\ \E chat_id \in ChatIds :
         IF ~Has(pending_buy_confirmation, chat_id)
           THEN /\ last' = Handled("confirm", chat_id, "no_pending")
                /\ UNCHANGED inflight
           ELSE /\ inflight' = [inflight EXCEPT ![s] =
                                  [pc |-> "read", chat |-> chat_id,
                                   pending |-> <<pending_buy_confirmation[chat_id]>>]]
                /\ UNCHANGED last
    /\ UNCHANGED <<now, ticks, last_command_time, pending_buy_confirmation, initialized,
                   callbacks_set, scheduling_enabled, listener, shutdown, jobs,
                   accept_count, dispatch_count>>
    /\ UNCHANGED execVars

\* the rest of handle_confirm_command (notifications.py:638-671), on the locals
\* read before: the expiry test, the pop, the choice of the callback and its call
ConfirmPop(s) ==
    /\ inflight[s].pc = "read"
    /\ LET chat_id == inflight[s].chat
           pending == inflight[s].pending[1]
           reply(result) == [Handled("confirm", chat_id, result)
                               EXCEPT !.had_entry = TRUE, !.entry_ts = pending.ts]
       IN /\ pending_buy_confirmation' = Pop(pending_buy_confirmation, chat_id)
          /\ IF Expired(now, pending.ts) THEN
                /\ last' = reply("timed_out")
                /\ UNCHANGED <<accept_count, dispatch_count>>
             ELSE
                /\ accept_count' = accept_count + 1
                /\ IF ~callbacks_set THEN
                      /\ last' = reply("callback_missing")
                      /\ UNCHANGED dispatch_count
                   ELSE IF ~CallbackBinds THEN
                      /\ last' = reply("error_executing")
                      /\ UNCHANGED dispatch_count
                   ELSE
                      /\ last' = [reply("initiated") EXCEPT !.dispatched = TRUE]
                      /\ dispatch_count' = dispatch_count + 1
    /\ inflight' = [inflight EXCEPT ![s] = Idle]
    /\ UNCHANGED <<now, ticks, last_command_time, initialized, callbacks_set,
                   scheduling_enabled, listener, shutdown, jobs>>
    /\ UNCHANGED execVars

C17_NoGuard(flag) == FALSE
\* handle_enable_command: if self._scheduling_enabled -> "already enabled"
AlreadyEnabled(flag) == flag

\* the reply of handle_enable_command
EnableReply(chat_id) ==
    LET gate == Gate(chat_id)
    IN IF gate # "pass" THEN gate
       ELSE IF AlreadyEnabled(scheduling_enabled) THEN "already_enabled"
       ELSE IF ~callbacks_set THEN "control_not_initialized"
       ELSE "enabled"

\* the reply of handle_disable_command
DisableReply(chat_id) ==
    LET gate == Gate(chat_id)
    IN IF gate # "pass" THEN gate
       ELSE IF ~scheduling_enabled THEN "already_disabled"
       ELSE IF ~callbacks_set THEN "control_not_initialized"
       ELSE "disabled"

\* handle_scheduling_state(True): schedule.every().monday...do(place_monday_order)
\* and schedule.every().sunday...do(place_sunday_order) append one job each
RegisterJobs(registry) == [d \in JobNames |-> registry[d] + 1]

\* handle_scheduling_state(False): schedule.clear()
ClearJobs(registry) == [d \in JobNames |-> 0]

\* handle_enable_command, with handle_scheduling_state(True) of initialize_bot
HandleEnableCommand ==
    /\ listener = "idle"
    /\ \E chat_id \in ChatIds :
       LET result == EnableReply(chat_id)
       IN /\ StampCooldown
          /\ last' = Handled("enable", chat_id, result)
          /\ IF result = "enabled"
               THEN /\ scheduling_enabled' = TRUE
                    /\ jobs' = RegisterJobs(jobs)
               ELSE UNCHANGED <<scheduling_enabled, jobs>>
          /\ UNCHANGED <<now, ticks, pending_buy_confirmation, initialized, callbacks_set,
                         listener, inflight, shutdown, accept_count, dispatch_count>>
          /\ UNCHANGED execVars

\* handle_disable_command, with handle_scheduling_state(False)
HandleDisableCommand ==
    /\ listener = "idle"
    /\ \E chat_id \in ChatIds :
       LET result == DisableReply(chat_id)
       IN /\ StampCooldown
          /\ last' = Handled("disable", chat_id, result)
          /\ IF result = "disabled"
               THEN /\ scheduling_enabled' = FALSE
                    /\ jobs' = ClearJobs(jobs)
               ELSE UNCHANGED <<scheduling_enabled, jobs>>
          /\ UNCHANGED <<now, ticks, pending_buy_confirmation, initialized, callbacks_set,
                         listener, inflight, shutdown, accept_count, dispatch_count>>
          /\ UNCHANGED execVars

\* handle_status_command: the same three checks, then a read-only report
HandleStatusCommand ==
    \E chat_id \in ChatIds :
       LET gate == Gate(chat_id)
       IN /\ StampCooldown
          /\ last' = Handled("status", chat_id,
                             IF gate # "pass" THEN gate ELSE "status_report")
          /\ UNCHANGED <<now, ticks, pending_buy_confirmation, initialized, callbacks_set,
                         scheduling_enabled, accept_count, dispatch_count>>
          /\ UNCHANGED gatewayFrame

\* NotificationManager.initialize reaches self.initialized = True
Initialize ==
    /\ ~initialized
    /\ initialized' = TRUE
    /\ UNCHANGED <<now, ticks, last_command_time, pending_buy_confirmation, callbacks_set,
                   scheduling_enabled, last, accept_count, dispatch_count>>
    /\ UNCHANGED gatewayFrame

\* _start_polling sees the updater stopped: self.initialized = False
PollingLost ==
    /\ initialized
    /\ initialized' = FALSE
    /\ UNCHANGED <<now, ticks, last_command_time, pending_buy_confirmation, callbacks_set,
                   scheduling_enabled, last, accept_count, dispatch_count>>
    /\ UNCHANGED gatewayFrame

\* initialize_bot: set_buy_callback ... set_scheduling_state_callback
InitializeBot ==
    /\ ~callbacks_set
    /\ callbacks_set' = TRUE
    /\ UNCHANGED <<now, ticks, last_command_time, pending_buy_confirmation, initialized,
                   scheduling_enabled, last, accept_count, dispatch_count>>
    /\ UNCHANGED gatewayFrame

\* time passes; the reply of the last command is no longer the current one
Tick ==
    /\ ticks < MaxTicks
    /\ ticks' = ticks + 1
    /\ \E d \in Delays : now' = now + d
    /\ last' = NoCommand
    /\ UNCHANGED <<last_command_time, pending_buy_confirmation, initialized,
                   callbacks_set, scheduling_enabled, accept_count, dispatch_count>>
    /\ UNCHANGED gatewayFrame

----------------------------------------------------------------------------
(* The main loop and the listener thread, statement by statement *)

\* main loop, first half of a pass (bot.py:642): is_scheduling_enabled() is read
\* as true; the loop is entered only after initialize_bot()
LoopCheck ==
    /\ pc = "idle"
    /\ callbacks_set
    /\ scheduling_enabled
    /\ pc' = "pending"
    /\ UNCHANGED <<DRY_RUN, stateFile, monday_attempt_successful, nextDay, trigger,
                   retry_count, attempts, gatewayCalls, orders, outcome, lastLog, jobLog,
                   primaryFilled, fallbackFlag, firstCompared, compared, bidImproved,
                   errorCount, writeResult, alerted, jobEnabledAtStart>>
    /\ UNCHANGED gatewayVars

\* main loop, second half (bot.py:643): schedule.run_pending() runs the Monday job,
\* still registered and now due
RunPendingMonday ==
    /\ pc = "pending"
    /\ nextDay = "monday"
    /\ jobs["monday"] > 0
    /\ place_monday_order

\* schedule.run_pending() runs the Sunday job, still registered and now due
RunPendingSunday ==
    /\ pc = "pending"
    /\ nextDay = "sunday"
    /\ jobs["sunday"] > 0
    /\ place_sunday_order

\* schedule.run_pending() finds no job registered or none due; the loop sleeps
RunPendingNothing ==
    /\ pc = "pending"
    /\ pc' = "idle"
    /\ UNCHANGED <<DRY_RUN, stateFile, monday_attempt_successful, nextDay, trigger,
                   retry_count, attempts, gatewayCalls, orders, outcome, lastLog, jobLog,
                   primaryFilled, fallbackFlag, firstCompared, compared, bidImproved,
                   errorCount, writeResult, alerted, jobEnabledAtStart>>
    /\ UNCHANGED gatewayVars

\* handle_disable_command up to "self._scheduling_enabled = False"
\* (notifications.py:721-749); a rejected command is answered here
DisableSetState ==
    /\ listener = "idle"
    /\ \E chat_id \in ChatIds :
       LET result == DisableReply(chat_id)
       IN /\ StampCooldown
          /\ IF result = "disabled"
               THEN /\ scheduling_enabled' = FALSE
                    /\ listener' = "disabling"
                    /\ UNCHANGED last
               ELSE /\ last' = Handled("disable", chat_id, result)
                    /\ UNCHANGED <<scheduling_enabled, listener>>
          /\ UNCHANGED <<now, ticks, pending_buy_confirmation, initialized, callbacks_set,
                         jobs, inflight, shutdown, accept_count, dispatch_count>>
          /\ UNCHANGED execVars

\* the rest of handle_disable_command: self._scheduling_state_callback(False),
\* that is schedule.clear(), and the reply (notifications.py:750-752)
DisableClearJobs ==
    /\ listener = "disabling"
    /\ jobs' = ClearJobs(jobs)
    /\ listener' = "idle"
    /\ last' = Handled("disable", telegram_chat_id, "disabled")
    /\ UNCHANGED <<now, ticks, last_command_time, pending_buy_confirmation, initialized,
                   callbacks_set, scheduling_enabled, inflight, shutdown, accept_count,
                   dispatch_count>>
    /\ UNCHANGED execVars

----------------------------------------------------------------------------
(* The scheduler and executor, with no command arriving *)

Next ==
    \/ PlaceMondayOrder
    \/ PlaceSundayOrder
    \/ Attempt
    \/ RetryDelay
    \/ ExchangeFills
    \/ FetchOrder
    \/ CancelOrder
    \/ Restart

Spec == Init /\ [][Next]_vars

----------------------------------------------------------------------------
(* The command gateway, with no weekly job coming due *)

GatewayInit ==
    /\ DRY_RUN = FALSE
    /\ nextDay = "monday"
    /\ ExecStart("false", "ok")
    /\ GatewayStart

GatewayNext ==
    \/ Tick
    \/ Initialize
    \/ PollingLost
    \/ InitializeBot
    \/ HandleBuyCommand
    \/ HandleBuySolCommand
    \/ HandleBuyEthCommand
    \/ HandleBuyUsdcCommand
    \/ HandleConfirmCommand
    \/ HandleEnableCommand
    \/ HandleDisableCommand
    \/ HandleStatusCommand

GatewaySpec == GatewayInit /\ [][GatewayNext]_vars

\* the same scheduler and executor, where every step of a run that has started
\* is eventually taken: a sleep ends, a gateway call returns or raises
FairSpec ==
    /\ Spec
    /\ WF_vars(Attempt)
    /\ WF_vars(RetryDelay)
    /\ WF_vars(FetchOrder)
    /\ WF_vars(CancelOrder)

----------------------------------------------------------------------------
(* The main loop against the listener thread, in dry-run mode *)

RaceInit ==
    /\ DRY_RUN = TRUE
    /\ nextDay \in JobNames
    /\ ExecStart("false", "ok")
    /\ GatewayStart

RaceNext ==
    \/ Tick
    \/ Initialize
    \/ InitializeBot
    \/ LoopCheck
    \/ RunPendingMonday
    \/ RunPendingSunday
    \/ RunPendingNothing
    \/ Attempt
    \/ RetryDelay
    \/ DisableSetState
    \/ DisableClearJobs
    \/ HandleEnableCommand

RaceSpec == RaceInit /\ [][RaceNext]_vars

----------------------------------------------------------------------------
(* The weekly jobs of the main thread against /buy and /confirm of the
   listener thread, in live mode *)

OverlapInit ==
    /\ DRY_RUN = FALSE
    /\ nextDay = "monday"
    /\ ExecStart("false", "ok")
    /\ GatewayStart

\* handle_buy_command for "/buy 25%" of the allow-listed chat
OwnerBuys ==
    Stage("buy", telegram_chat_id, << <<"2", "5", "%">> >>)

OverlapNext ==
    \/ Initialize
    \/ InitializeBot
    \/ OwnerBuys
    \/ HandleConfirmCommand
    \/ PlaceMondayOrder
    \/ Attempt
    \/ RetryDelay
    \/ ExchangeFills
    \/ FetchOrder
    \/ CancelOrder

OverlapSpec == OverlapInit /\ [][OverlapNext]_vars

----------------------------------------------------------------------------
(* Signals: the handler installed when notifications is imported *)

Signals == {"SIGINT", "SIGTERM"}

\* signal.signal(signal.SIGTERM, signal_handler); signal.signal(signal.SIGINT,
\* signal_handler): both signals run signal_handler, and Python's default SIGINT
\* handler, which raises KeyboardInterrupt, is no longer installed
Disposition(signum) == "signal_handler"

\* a signal arrives while the main thread is anywhere in its loop.
\* signal_handler logs, calls notification_manager.stop(), which sets the stop
\* event, stops the updater and joins the polling thread, and returns: the main
\* thread goes on where it was.  Under the default dispositions SIGINT would
\* raise KeyboardInterrupt out of "while True" (bot.py:646) and SIGTERM would end
\* the process.
DeliverSignal ==
    /\ pc # "exited"
    /\ \E signum \in Signals :
         IF Disposition(signum) = "signal_handler"
           THEN /\ shutdown' = "stopped"
                /\ pc' = pc
           ELSE /\ shutdown' = "interrupted"
                /\ pc' = "exited"
    /\ UNCHANGED <<DRY_RUN, stateFile, monday_attempt_successful, nextDay, trigger,
                   retry_count, attempts, gatewayCalls, orders, outcome, lastLog, jobLog,
                   primaryFilled, fallbackFlag, firstCompared, compared, bidImproved,
                   errorCount, writeResult, alerted, jobEnabledAtStart>>
    /\ UNCHANGED <<now, ticks, last_command_time, pending_buy_confirmation, initialized,
                   callbacks_set, scheduling_enabled, listener, inflight, jobs, last,
                   accept_count, dispatch_count>>

\* the listener handles commands until stop() has stopped the updater
ListenerHandles ==
    /\ shutdown = "none"
    /\ (HandleEnableCommand \/ HandleDisableCommand)

ShutdownInit ==
    /\ DRY_RUN = TRUE
    /\ nextDay \in JobNames
    /\ ExecStart("false", "ok")
    /\ GatewayStart

ShutdownNext ==
    \/ Initialize
    \/ InitializeBot
    \/ LoopCheck
    \/ RunPendingMonday
    \/ RunPendingSunday
    \/ RunPendingNothing
    \/ Attempt
    \/ RetryDelay
    \/ ListenerHandles
    \/ DeliverSignal

\* the main thread is never blocked for good: initialize_bot returns, each pass
\* of the loop ends, each sleep and each gateway call of a run returns
ShutdownSpec ==
    /\ ShutdownInit
    /\ [][ShutdownNext]_vars
    /\ WF_vars(InitializeBot)
    /\ WF_vars(LoopCheck)
    /\ WF_vars(RunPendingMonday)
    /\ WF_vars(RunPendingSunday)
    /\ WF_vars(RunPendingNothing)
    /\ WF_vars(Attempt)
    /\ WF_vars(RetryDelay)

----------------------------------------------------------------------------
(* The listener, with handle_confirm_command taken statement by statement *)

ConfirmReads == \E s \in Slots : ConfirmRead(s)

ConfirmPops == \E s \in Slots : ConfirmPop(s)

\* a staging command of the owner is handled when the dispatcher takes it
OwnerStages ==
    /\ DispatcherFree(inflight)
    /\ \E args \in { << <<"2", "5", "%">> >>, << <<"5", "0">>, <<"u", "s", "d", "c">> >> } :
          Stage("buy", telegram_chat_id, args)

ListenerInit == GatewayInit

ListenerNext ==
    \/ Tick
    \/ Initialize
    \/ InitializeBot
    \/ OwnerStages
    \/ ConfirmReads
    \/ ConfirmPops

ListenerSpec == ListenerInit /\ [][ListenerNext]_vars

----------------------------------------------------------------------------
(* Claims *)

Alert == {"WARNING", "ERROR"}

\* C1 (as stated): once a run started by the Monday job of this process has ended
\* with an order observed filled, the Sunday job that fires before the next Monday
\* job does not run the executor: no attempt, no gateway call, no order.
C1_FallbackSkipsAfterPrimaryFill ==
    (trigger = "sunday" /\ primaryFilled = "live")
        => (outcome = "skipped" /\ attempts = 0 /\ gatewayCalls = 0 /\ orders = <<>>)

\* C2 (as stated): a confirm of the authorised requester that finds the staged buy
\* inside its window, with the executors registered, dispatches the executor of
\* the staged kind exactly once.
C2_ConfirmedBuyDispatchedOnce ==
    (/\ last.cmd = "confirm"
     /\ last.chat = telegram_chat_id
     /\ last.had_entry
     /\ last.registered
     /\ (now - last.entry_ts) <= ConfirmWindow)
        => (dispatch_count = 1 /\ last.dispatched)

\* C3: a confirm that arrives more than 30 seconds after the staging timestamp
\* of the requester's entry is rejected as timed out, dispatches nothing and
\* removes the entry; the next confirm of that requester, if no staging came in
\* between, is answered "no pending".
C3_LateConfirmRejected ==
    /\ []((last.cmd = "confirm" /\ last.had_entry
             /\ (now - last.entry_ts) > ConfirmWindow)
            => (/\ last.result = "timed_out"
                /\ ~last.dispatched
                /\ dispatch_count = 0
                /\ ~Has(pending_buy_confirmation, last.chat)))
    /\ [][(last.result = "timed_out" /\ last'.cmd = "confirm"
             /\ last'.chat = last.chat /\ last' # last)
            => (last'.result = "no_pending" /\ ~last'.dispatched)]_vars

C3_Witness ==
    last.cmd = "confirm" /\ last.chat = telegram_chat_id /\ last.result = "timed_out"

\* C4: between two stagings at most one confirm passes the checks and at most one
\* dispatch happens; a confirm that passes removes the entry, and a confirm
\* that finds no entry is rejected and dispatches nothing.
C4_AtMostOneDispatch ==
    /\ accept_count <= 1
    /\ dispatch_count <= accept_count
    /\ (last.cmd = "confirm" /\ ~last.had_entry)
          => (last.result = "no_pending" /\ ~last.dispatched)
    /\ (last.cmd = "confirm" /\ last.had_entry)
          => ~Has(pending_buy_confirmation, last.chat)
    /\ (Has(pending_buy_confirmation, telegram_chat_id) => accept_count = 0)

C4_Witness ==
    accept_count = 1 /\ last.cmd = "confirm" /\ last.chat = telegram_chat_id
        /\ last.result = "no_pending"

\* C5: the pending table never holds an entry for a chat other than the
\* allow-listed one, and every buy command of another chat is rejected.
C5_OnlyAllowedChatStored ==
    /\ \A c \in DOMAIN pending_buy_confirmation : c = telegram_chat_id
    /\ (last.cmd \in BuyCommands /\ last.chat # telegram_chat_id)
          => last.result \in {"cooldown", "not_initialized", "unauthorized"}

C5_Witness ==
    last.cmd \in BuyCommands /\ last.chat = "stranger" /\ last.result = "unauthorized"

\* C6: every order placed has a quantity spend / (100 * price) of at least
\* min_btc_amount; an attempt that computes less ends the run at once, with no
\* order of its own and its retry not consumed (every earlier attempt of the run
\* consumed one).
C6_NoOrderBelowMinimum ==
    /\ \A i \in 1..Len(orders) :
          orders[i].spend * MinBtcDen >= MinBtcNum * Hundred * orders[i].price
    /\ outcome = "below_minimum"
          => (pc = "idle" /\ retry_count = attempts - 1 /\ Len(orders) <= attempts - 1)

C6_Witness ==
    outcome = "below_minimum" /\ attempts >= 1 /\ pc = "idle"

\* C7: a run never starts more than max_retries attempts nor places more than
\* max_retries orders; a run in progress still has a retry left; exhaustion is
\* reported at WARNING or ERROR level and returns the main loop to idle; and
\* every run that has started ends.
C7_BoundedRun ==
    /\ [](/\ attempts <= max_retries
          /\ Len(orders) <= max_retries
          /\ retry_count <= max_retries
          /\ (Running => retry_count < max_retries)
          /\ (outcome = "exhausted"
                => (pc = "idle" /\ lastLog.level \in Alert
                      /\ retry_count = max_retries /\ attempts = max_retries)))
    /\ (Running ~> (pc = "idle"))

C7_Witness ==
    outcome = "exhausted" /\ attempts = max_retries /\ Len(orders) = max_retries

C9_FirstAttemptSuccess ==
    (DRY_RUN /\ firstCompared /\ ~bidImproved)
        => (/\ outcome = "filled"
            /\ pc = "idle"
            /\ attempts = 1
            /\ retry_count = 0
            /\ orders = <<>>
            /\ lastLog = Log("simulated_fill", "SUCCESS"))

C9_Witness ==
    DRY_RUN /\ firstCompared /\ outcome = "filled" /\ attempts = 1

\* C10: a Sunday job that reads the flag as true makes no gateway call, starts
\* no attempt, places no order and logs exactly one line, the skip line.
C10_FallbackSkipIsSilent ==
    (trigger = "sunday" /\ fallbackFlag)
        => (/\ gatewayCalls = 0
            /\ attempts = 0
            /\ orders = <<>>
            /\ pc = "idle"
            /\ jobLog = <<"skipping_sunday_fallback">>
            /\ lastLog = Log("skipping_sunday_fallback", "INFO"))

C10_Witness ==
    trigger = "sunday" /\ fallbackFlag /\ outcome = "skipped"

\* C11: a process that starts with the record "true" in the file has the flag
\* true in memory as long as no job has run, and a Sunday job that is the first
\* job after that start skips: no attempt, no gateway call, no order.
C11_FlagSurvivesRestart ==
    /\ []((pc = "idle" /\ trigger = "none" /\ stateFile = "true")
            => monday_attempt_successful = TRUE)
    /\ [][(trigger = "none" /\ stateFile = "true" /\ trigger' = "sunday")
            => (/\ outcome' = "skipped"
                /\ pc' = "idle"
                /\ attempts' = 0
                /\ gatewayCalls' = 0
                /\ orders' = <<>>
                /\ stateFile' = "true")]_vars

C11_Witness ==
    /\ trigger = "sunday" /\ outcome = "skipped" /\ jobLog = <<"skipping_sunday_fallback">>
    /\ stateFile = "true" /\ monday_attempt_successful = TRUE /\ writeResult = "none"

\* C12 (as stated): when the run started by the Monday job is about to make its
\* first gateway call, the flag is false in memory and the file holds the
\* record "false".
C12_PrimaryResetsFlagAndStore ==
    (trigger = "monday" /\ pc = "attempt" /\ gatewayCalls = 0)
        => (monday_attempt_successful = FALSE /\ stateFile = "false")

\* C12 (amended): when the run started by the Monday job is about to make its
\* first gateway call, the flag is false in memory, whatever it was before, and
\* the write of the record "false" has been attempted: the file holds "false"
\* whenever that write succeeded; a failed write does not stop the run.
C12_PrimaryResetsFlag ==
    (trigger = "monday" /\ pc = "attempt" /\ gatewayCalls = 0)
        => (/\ monday_attempt_successful = FALSE
            /\ writeResult \in WriteResults
            /\ (writeResult = "ok" => stateFile = "false"))

C12_Witness ==
    /\ trigger = "monday" /\ pc = "attempt" /\ gatewayCalls = 0
    /\ monday_attempt_successful = FALSE
    /\ writeResult = "open_fails" /\ stateFile = "true"

\* C13 (as stated): when a run started by the Monday job has returned with an
\* attempt declared filled, live or simulated, the file holds the record "true".
C13_FilledPrimaryPersisted ==
    (trigger = "monday" /\ outcome = "filled" /\ pc = "idle") => stateFile = "true"

\* C14 (as stated): the load at process start never raises, whatever the file
\* holds: the process always reaches its main loop.
C14_LoadNeverRaises ==
    pc # "crashed"

\* C15 (as stated): every step leaves the file either as it was or holding a
\* complete record, never an empty or partial one.
C15_AtomicReplace ==
    [][stateFile' = stateFile \/ stateFile' \in {"true", "false"}]_vars

\* C16 (as stated): no weekly job starts while self._scheduling_enabled is false.
C16_NoJobWhileDisabled ==
    jobEnabledAtStart = TRUE

\* C17: whenever no handler is in progress, the registry holds exactly one
\* Monday and one Sunday job if scheduling is enabled and none if it is
\* disabled; an enable answered "already enabled" and a disable answered
\* "already disabled" change neither the flag nor the registry.
C17_JobSetMatchesState ==
    /\ [](/\ scheduling_enabled => \A d \in JobNames : jobs[d] = 1
          /\ ~scheduling_enabled => \A d \in JobNames : jobs[d] = 0)
    /\ [][(last' # last /\ last'.result \in {"already_enabled", "already_disabled"})
            => UNCHANGED <<scheduling_enabled, jobs>>]_vars

C17_Witness ==
    /\ last.cmd = "enable" /\ last.result = "enabled"
    /\ scheduling_enabled /\ \A d \in JobNames : jobs[d] = 1

\* C18 (as stated): a command of any kind that follows an accepted command of
\* the allow-listed chat before the cooldown has passed is answered with the
\* retry-later reply and changes nothing.
C18_CooldownRejectsEveryCommand ==
    [][(/\ last.chat = telegram_chat_id
        /\ last.result \in {"confirm_prompt", "status_report", "enabled", "disabled"}
        /\ ~CooldownPasses(now, last_command_time)
        /\ last' # last /\ last'.cmd # "none")
         => (/\ last'.result = "cooldown"
             /\ UNCHANGED <<pending_buy_confirmation, scheduling_enabled, jobs,
                            last_command_time>>)]_vars

\* C19 (as stated): a command of a chat other than the allow-listed one leaves
\* the pending table, the scheduling flag, the registry and the cooldown stamp
\* unchanged.
C19_UnauthorizedChangesNothing ==
    [][(last' # last /\ last'.chat \notin {"none", telegram_chat_id}
          /\ last'.result = "unauthorized")
         => UNCHANGED <<pending_buy_confirmation, scheduling_enabled, jobs,
                        last_command_time>>]_vars

\* C20: in every state, the reply, the pending table and the cooldown stamp a
\* staging command of a chat other than the allow-listed one leaves are the same
\* for every argument list, well-formed or not.
C20_UnauthorizedReplyIgnoresArgs ==
    \A c \in ChatIds \ {telegram_chat_id}, cmd \in BuyCommands, args \in ArgLists :
        /\ StageOutcome(cmd, c, args) = StageOutcome(cmd, c, <<>>)
        /\ StageOutcome(cmd, c, args).table = pending_buy_confirmation

C20_Witness ==
    /\ last.cmd \in BuyCommands /\ last.chat = "stranger"
    /\ last.result = "unauthorized" /\ last.well_formed
    /\ ~Has(pending_buy_confirmation, "stranger")

\* C21: in every state where the allow-listed chat passes the three checks, a
\* staging command whose arguments do not parse is answered with the usage text
\* and leaves the pending table as it is; after such a command an entry the chat
\* had before is still there with its timestamp.
C21_UnparsedChangesNothing ==
    /\ \A cmd \in BuyCommands, args \in ArgLists :
         (Gate(telegram_chat_id) = "pass" /\ ~parse_buy_command(args).valid)
            => (/\ StageOutcome(cmd, telegram_chat_id, args).result = "usage"
                /\ StageOutcome(cmd, telegram_chat_id, args).table
                       = pending_buy_confirmation)
    /\ (last.cmd \in BuyCommands /\ last.result = "usage" /\ last.had_entry)
          => (/\ Has(pending_buy_confirmation, last.chat)
              /\ pending_buy_confirmation[last.chat].ts = last.entry_ts)

C21_Witness ==
    /\ last.cmd \in BuyCommands /\ last.chat = telegram_chat_id
    /\ last.result = "usage" /\ last.had_entry
    /\ Has(pending_buy_confirmation, telegram_chat_id)
    /\ ~Expired(now, pending_buy_confirmation[telegram_chat_id].ts)

\* C22 (as stated): after a staging command answered with the confirmation
\* prompt the requester's entry is the one just staged, stamped with the time of
\* that command; and a confirm that finds an unexpired entry, with the executors
\* registered, dispatches the executor of the entry's kind.
C22_LatestStagedIsConfirmed ==
    /\ (last.result = "confirm_prompt")
          => (/\ Has(pending_buy_confirmation, last.chat)
              /\ pending_buy_confirmation[last.chat].command_type = last.cmd
              /\ pending_buy_confirmation[last.chat].ts = last_command_time)
    /\ (last.cmd = "confirm" /\ last.registered
          /\ last.result \notin {"no_pending", "timed_out"})
          => last.dispatched

\* C23 (as stated, for the entries stored): every entry of the pending table has
\* an amount greater than zero and a currency of none, EUR or USDC, and an entry
\* of kind buyusdc has currency EUR.
C23_StoredEntriesArePositive ==
    \A c \in DOMAIN pending_buy_confirmation :
        LET e == pending_buy_confirmation[c]
        IN /\ Greater(e.amount, 0)
           /\ e.currency \in {"None", "EUR", "USDC"}
           /\ (e.command_type = "buyusdc" => e.currency = "EUR")

\* C24 (as stated): for every staged entry and every balance that funds a run,
\* the run its confirm starts is started, spends the staged absolute amount or
\* the staged percentage of the balance (in hundredths), and is funded in the
\* staged currency when one was given.
C24_RunUsesStagedParameters ==
    \A c \in DOMAIN pending_buy_confirmation, eur \in Balances, usdc \in UsdcBalances :
        LET e == pending_buy_confirmation[c]
            funding == get_available_balance(eur, usdc, TRUE)
        IN funding.currency # "None"
             => (/\ CallbackBinds
                 /\ amount_to_use(funding.balance)
                      = (IF e.is_percentage THEN funding.balance * e.amount.value
                         ELSE e.amount.value * Hundred)
                 /\ (e.currency # "None" => funding.currency = e.currency))

\* C25 (as stated): in every state where the allow-listed chat passes the three
\* checks, a staging command without arguments is answered with the
\* confirmation prompt and stores an entry for the chat.
C25_NoArgumentsStages ==
    \A cmd \in BuyCommands :
        Gate(telegram_chat_id) = "pass"
          => (/\ StageOutcome(cmd, telegram_chat_id, <<>>).result = "confirm_prompt"
              /\ Has(StageOutcome(cmd, telegram_chat_id, <<>>).table,
                     telegram_chat_id))

\* C26: an attempt that finds no funding currency with a balance of at least 10,
\* or an order book without bids, ends the run in that step: the run is idle, no
\* order was added, retry_count is what it was, and no attempt follows until a
\* job starts the next run.
C26_AbortEndsRun ==
    /\ [][(pc = "attempt" /\ outcome' \in {"insufficient_balance", "no_bids"})
            => (/\ pc' = "idle"
                /\ orders' = orders
                /\ retry_count' = retry_count)]_vars
    /\ [][(outcome \in {"insufficient_balance", "no_bids"})
            => (attempts' # attempts + 1)]_vars
    /\ [](outcome \in {"insufficient_balance", "no_bids"}
            => (pc = "idle" /\ retry_count = attempts - 1))

C26_Witness ==
    /\ outcome \in {"insufficient_balance", "no_bids"}
    /\ attempts > 1 /\ retry_count = attempts - 1 /\ pc = "idle"

\* C27 (as stated): a run that ended on insufficient balance, on an empty order
\* book, on a quantity below the floor or on exhausted retries has logged at
\* least one line at WARNING or ERROR level.
C27_TerminalFailureAlerts ==
    (pc = "idle" /\ outcome \in {"insufficient_balance", "no_bids", "below_minimum",
                                 "exhausted"})
        => alerted

\* C28: a gateway call that raises during an attempt is logged at ERROR level
\* and adds exactly one to retry_count; the run then waits for the retry delay if
\* retry_count is still below max_retries and otherwise ends idle, reported as
\* exhausted at WARNING level; errors never outnumber consumed retries.
C28_ErrorConsumesOneRetry ==
    /\ [][(errorCount' = errorCount + 1)
            => (/\ retry_count' = retry_count + 1
                /\ alerted'
                /\ IF retry_count' < max_retries
                     THEN pc' = "delay" /\ outcome' = outcome
                     ELSE /\ pc' = "idle" /\ outcome' = "exhausted"
                          /\ lastLog'.level \in Alert)]_vars
    /\ [](errorCount <= retry_count /\ retry_count <= max_retries)

C28_Witness ==
    /\ errorCount = max_retries /\ retry_count = max_retries
    /\ outcome = "exhausted" /\ pc = "idle" /\ Len(orders) > 0

\* C29 (as stated): every order of the run but the newest one has had a cancel
\* request issued for it.
C29_CancelBeforeNextOrder ==
    \A i \in 1..Len(orders) : i < Len(orders) => orders[i].cancel_requested

C33_FirstFundedCurrency ==
    /\ \A i \in 1..Len(orders) :
          /\ orders[i].currency \in {"EUR", "USDC"}
          /\ orders[i].spend >= amount_to_use(MinFunding)
    /\ \A eur \in Balances, usdc \in UsdcBalances, allow_usdc \in BOOLEAN :
          LET r == get_available_balance(eur, usdc, allow_usdc)
          IN /\ (eur >= 10) => (r = [currency |-> "EUR", balance |-> eur])
             /\ (eur < 10 /\ usdc >= 10 /\ allow_usdc)
                   => (r = [currency |-> "USDC", balance |-> usdc])
             /\ allow_usdc => ((r.currency = "None") <=> (eur < 10 /\ usdc < 10))
             /\ (r.currency = "None") => (r.balance = 0)
             /\ ~allow_usdc => (r.currency # "USDC")

C33_Witness ==
    /\ Len(orders) > 0
    /\ orders[1].currency = "USDC"
    /\ orders[1].spend = amount_to_use(50)

\* C35 (as stated): when a live-mode run has returned, none of the orders it
\* placed is open on the exchange.
C35_NoOrderLeftOpen ==
    (~DRY_RUN /\ pc = "idle" /\ trigger # "none")
        => \A i \in 1..Len(orders) : orders[i].status # "open"

\* C36 (as stated): within a live-mode run, an order that was observed open, had
\* its cancel requested and was filled all the same is never followed by a
\* second order that is filled too.
C36_AtMostOneFill ==
    \A i, j \in 1..Len(orders) :
        (i < j /\ orders[i].cancel_requested /\ orders[i].status = "closed")
            => orders[j].status # "closed"

\* C37: the last-command timestamp changes only in a step whose command passes
\* the cooldown check, and then becomes the current time; a command answered
\* "cooldown" leaves it as it was; so a rate-limited command that arrives at
\* least command_cooldown after the stamp is never answered "cooldown", whatever
\* was rejected in between.
C37_StampOnlyOnPass ==
    /\ [](last_command_time <= now)
    /\ [][(last_command_time' # last_command_time)
            => (/\ (now - last_command_time) >= command_cooldown
                /\ last_command_time' = now
                /\ last'.cmd # "none"
                /\ last'.result # "cooldown")]_vars
    /\ [][(last' # last /\ last'.result = "cooldown")
            => (/\ last_command_time' = last_command_time
                /\ (now - last_command_time) < command_cooldown)]_vars
    /\ [][(/\ last' # last
           /\ last'.cmd \in BuyCommands \cup {"enable", "disable", "status"}
           /\ (now - last_command_time) >= command_cooldown)
            => (last'.result # "cooldown" /\ last_command_time' = now)]_vars

\* a command was rejected inside the cooldown one second after the stamp, and
\* the stamp still reads the time of the accepted command
C37_Witness ==
    /\ last.result = "cooldown"
    /\ last_command_time > 0
    /\ now = last_command_time + 1

\* C38: a confirm that found an unexpired entry and whose dispatch failed (no
\* callback registered, or the call raised) has removed the entry, and the next
\* confirm of that chat, with no staging in between, finds nothing pending and
\* dispatches nothing.
C38_FailedDispatchRemovesEntry ==
    /\ []((last.cmd = "confirm" /\ last.result \in {"callback_missing", "error_executing"})
            => (/\ last.had_entry
                /\ ~Expired(now, last.entry_ts)
                /\ ~last.dispatched
                /\ ~Has(pending_buy_confirmation, last.chat)))
    /\ [][(/\ last.cmd = "confirm"
           /\ last.result \in {"callback_missing", "error_executing"}
           /\ last'.cmd = "confirm" /\ last'.chat = last.chat /\ last' # last)
            => (last'.result = "no_pending" /\ ~last'.dispatched
                  /\ dispatch_count' = dispatch_count)]_vars

C38_Witness ==
    /\ last.cmd = "confirm" /\ last.result = "error_executing"
    /\ last.had_entry /\ accept_count = 1 /\ dispatch_count = 0
    /\ ~Has(pending_buy_confirmation, telegram_chat_id)

C32_SignalEndsMainLoop ==
    (shutdown # "none") ~> (shutdown # "none" /\ pc = "exited")

\* C31: no two handlers are inside the table at once: a confirm that has read an
\* entry pops that same entry, unchanged by any staging in between, and between
\* two stagings at most one confirm gets past the checks, so an entry is
\* dispatched at most once; the other confirm finds nothing pending.
C31_TableAccessExclusive ==
    /\ Cardinality({s \in Slots : inflight[s].pc # "idle"}) <= 1
    /\ \A s \in Slots :
          inflight[s].pc = "read"
             => /\ Has(pending_buy_confirmation, inflight[s].chat)
                /\ pending_buy_confirmation[inflight[s].chat] = inflight[s].pending[1]
    /\ accept_count <= 1
    /\ dispatch_count <= accept_count
    /\ (accept_count = 1) =>
          (\A s \in Slots : inflight[s].pc = "read" => inflight[s].chat # telegram_chat_id)

\* an entry was accepted by one confirm, and the second confirm of the same chat
\* was answered that nothing is pending
C31_Witness ==
    /\ accept_count = 1
    /\ DispatcherFree(inflight)
    /\ last.cmd = "confirm" /\ last.chat = telegram_chat_id
    /\ last.result = "no_pending"
    /\ ~Has(pending_buy_confirmation, telegram_chat_id)


====
